---- MODULE Spec2Model ----
(***************************************************************************)
(* Polymarket 15-minute Bitcoin market watcher.                            *)
(*                                                                         *)
(* discovery.py      : window arithmetic, title variants and the search    *)
(*                     sweep find_active_window.                           *)
(* market_watcher.py : MarketWatcher (price state, display) and main_loop  *)
(*                     (discover, connect, subscribe, consume, rotate).    *)
(*                                                                         *)
(* Time is a global clock of whole seconds (an instant, UTC).  Each action *)
(* is the code that runs between two suspension points (await) of the      *)
(* single asyncio task.                                                    *)
(***************************************************************************)
EXTENDS Integers, Sequences, FiniteSets, TLC

\* ------------------------------------------------------------------ bounds
\* The instant at which the process starts, and how long it is observed.
ClockStart == 18890
MaxElapsed == 60
\* The largest number of events in one search response.
MaxHits == 2
\* The longest a whole sweep of search requests takes.
MaxSweepSeconds == 2

MaxClock == ClockStart + MaxElapsed

\* ------------------------------------------------------- program constants
ET_OFFSET == -18000
WINDOW_MINUTES == 15
DURATION_LIMIT == 1800
BACKOFF_SECONDS == 30
PAUSE_SECONDS == 4
RECV_TIMEOUT == 10

\* ------------------------------------------------------------ option type
None == <<>>
Some(x) == <<x>>

\* ------------------------------------------------------------- timestamps
\* An ISO-8601 text is a wall-clock reading with a UTC offset; "missing" is
\* an absent, null or empty field and "bad" a text that does not parse.
NoTs == [kind |-> "missing", wall |-> 0, off |-> 0]
BadTs == [kind |-> "bad", wall |-> 0, off |-> 0]
Iso(wall, off) == [kind |-> "iso", wall |-> wall, off |-> off]

\* datetime.fromisoformat(...).astimezone(ET_TZ) and parser.isoparse: the
\* instant the text denotes (aware datetimes compare by instant).
fromisoformat(ts) == ts.wall - ts.off

\* datetime.isoformat() of an aware datetime in Eastern Time.
isoformat(t) == Iso(t + ET_OFFSET, ET_OFFSET)

\* Wall-clock seconds in Eastern Time of an instant.
WallET(t) == t + ET_OFFSET

\* ------------------------------------------------------------ WindowClock
get_window_boundaries(now) ==
    LET w == WallET(now)
        minute == (((w % 3600) \div 60) \div WINDOW_MINUTES) * WINDOW_MINUTES
        startWall == (w - (w % 3600)) + minute * 60
        start == startWall - ET_OFFSET
    IN  <<start, start + WINDOW_MINUTES * 60>>

\* strftime("%B %d").replace(" 0", " "): the calendar day, year dropped.
date_str(start) == WallET(start) \div 86400

\* strftime("%I:%M%p").lstrip("0").upper(): 12-hour clock, minute, meridiem.
time_str(start) ==
    LET w == WallET(start) % 86400
        h == w \div 3600
    IN  << IF h % 12 = 0 THEN 12 ELSE h % 12,
           (w % 3600) \div 60,
           IF h < 12 THEN "AM" ELSE "PM" >>

title_variants(start) ==
    << [fmt |-> "plain", date |-> date_str(start), time |-> time_str(start)],
       [fmt |-> "hyphen_comma", date |-> date_str(start), time |-> time_str(start)],
       [fmt |-> "hyphen", date |-> date_str(start), time |-> time_str(start)] >>

\* ------------------------------------------------- search API (black box)
\* The clobTokenIds field of a market record: a JSON text.
AbsentClob == [kind |-> "absent", ids |-> <<>>]
BadJsonClob == [kind |-> "badjson", ids |-> <<>>]
Clob(ids) == [kind |-> "list", ids |-> ids]

\* One element of the "events" array.  markets is "absent" (no such key),
\* "empty" (an empty array) or "one" (a first market record with the fields
\* mStart = eventStartTime, mEnd = endDate, clob = clobTokenIds).
Hit(markets, mStart, mEnd, evStart, evEnd, clob, title) ==
    [markets |-> markets, mStart |-> mStart, mEnd |-> mEnd,
     evStart |-> evStart, evEnd |-> evEnd, clob |-> clob, title |-> title,
     conditionId |-> "0xc1", questionID |-> "absent"]

\* Timestamps the exchange may report: a market that opens at ClockStart
\* and closes 5 s or 12 s later (before or after a first receive timeout),
\* or exactly DURATION_LIMIT later, or one second more than that.  The texts name UTC instants.
LiveStart == Iso(ClockStart, 0)
EndA == Iso(ClockStart + 5, 0)
EndB == Iso(ClockStart + 12, 0)
EndLong == Iso(ClockStart + DURATION_LIMIT, 0)
EndTooLong == Iso(ClockStart + DURATION_LIMIT + 1, 0)
\* The same instants written with the Eastern offset.
LiveStartET == Iso(ClockStart + ET_OFFSET, ET_OFFSET)
EndAET == Iso(ClockStart + 5 + ET_OFFSET, ET_OFFSET)

Hits ==
    { Hit("one", LiveStart, EndA, NoTs, NoTs, Clob(<<"A", "B">>), "Bitcoin Up or Down"),
      Hit("one", LiveStart, EndLong, NoTs, NoTs, Clob(<<"A", "B">>), "absent"),
      Hit("one", LiveStart, EndTooLong, NoTs, NoTs, Clob(<<"A", "B">>), "Bitcoin Up or Down"),
      Hit("one", LiveStart, EndB, NoTs, NoTs, Clob(<<"B", "A">>), "Bitcoin Up or Down"),
      Hit("one", LiveStart, EndA, NoTs, NoTs, Clob(<<"A", "A">>), "Bitcoin Up or Down"),
      Hit("one", NoTs, NoTs, LiveStartET, EndAET, Clob(<<"A", "B">>), "Bitcoin Up or Down"),
      Hit("one", NoTs, EndA, NoTs, NoTs, Clob(<<"A", "B">>), "Bitcoin Up or Down"),
      Hit("one", BadTs, EndA, NoTs, NoTs, Clob(<<"A", "B">>), "Bitcoin Up or Down"),
      Hit("one", LiveStart, EndA, NoTs, NoTs, AbsentClob, "Bitcoin Up or Down"),
      Hit("one", LiveStart, EndA, NoTs, NoTs, BadJsonClob, "Bitcoin Up or Down"),
      Hit("empty", NoTs, NoTs, LiveStartET, EndAET, AbsentClob, "Bitcoin Up or Down"),
      Hit("absent", NoTs, NoTs, LiveStartET, EndAET, AbsentClob, "Bitcoin Up or Down") }

RECURSIVE SeqsUpTo(_, _)
SeqsUpTo(S, n) ==
    IF n = 0 THEN { <<>> }
    ELSE LET shorter == SeqsUpTo(S, n - 1)
         IN  shorter \cup { Append(s, x) : s \in { t \in shorter : Len(t) = n - 1 }, x \in S }

\* What one GET of the search endpoint can produce: a non-200 status, an
\* exception (timeout, reset, body that is not JSON), or a JSON object with
\* an "events" array (absent or empty: no events).
Responses ==
    { [status |-> "non200", events |-> <<>>],
      [status |-> "exception", events |-> <<>>] }
    \cup { [status |-> "ok", events |-> evs] : evs \in SeqsUpTo(Hits, MaxHits) }

\* -------------------------------------------------------- MarketDiscovery
Truthy(ts) == ts.kind # "missing"

\* a or b on two optional timestamp fields.
OrTs(a, b) == IF Truthy(a) THEN a ELSE b

\* m = ev.get("markets", [{}])[0]: the fields of the first market record;
\* with no "markets" key m is the empty record.
MarketField(ev, f) == IF ev.markets = "one" THEN ev[f] ELSE NoTs
MarketClob(ev) == IF ev.markets = "one" THEN ev.clob ELSE AbsentClob
MarketId(ev, f) == IF ev.markets = "one" THEN ev[f] ELSE "absent"

Skip == [tag |-> "skip", market |-> None, exc |-> "none"]
Raise(e) == [tag |-> "raise", market |-> None, exc |-> e]
Return(m) == [tag |-> "return", market |-> Some(m), exc |-> "none"]

\* The dictionary returned at discovery.py:104-112.
Descriptor(ev, start_dt, end_dt, token_ids) ==
    [title |-> IF ev.title = "absent" THEN "BTC 15m" ELSE ev.title,
     yes_id |-> token_ids[1],
     no_id |-> token_ids[2],
     start_time |-> isoformat(start_dt),
     end_time |-> isoformat(end_dt),
     condition_id |-> MarketId(ev, "conditionId"),
     question_id |-> MarketId(ev, "questionID")]

\* Variant of TooLong with the limit off by one second: C6 must notice it.
TooLongOffByOne(start_dt, end_dt) == end_dt - start_dt > DURATION_LIMIT + 1

\* The duration filter (Filter 1) and the liveness filter (Filter 2).
TooLong(start_dt, end_dt) == end_dt - start_dt > DURATION_LIMIT
IsLive(start_dt, now, end_dt) == start_dt <= now /\ now < end_dt

\* One iteration of "for ev in events" (discovery.py:79-112).
ScanEvent(ev, now) ==
    IF ev.markets = "empty" THEN Raise("IndexError")
    ELSE
      LET start_ts == OrTs(MarketField(ev, "mStart"), ev.evStart)
          end_ts == OrTs(MarketField(ev, "mEnd"), ev.evEnd)
      IN  IF ~Truthy(start_ts) \/ ~Truthy(end_ts) THEN Skip
          ELSE IF start_ts.kind = "bad" \/ end_ts.kind = "bad" THEN Raise("ValueError")
          ELSE
            LET start_dt == fromisoformat(start_ts)
                end_dt == fromisoformat(end_ts)
                clob == MarketClob(ev)
            IN  IF TooLong(start_dt, end_dt) THEN Skip
                ELSE IF ~IsLive(start_dt, now, end_dt) THEN Skip
                ELSE IF clob.kind = "absent" THEN Raise("KeyError")
                ELSE IF clob.kind = "badjson" THEN Raise("JSONDecodeError")
                ELSE IF Len(clob.ids) < 2 THEN Raise("IndexError")
                ELSE Return(Descriptor(ev, start_dt, end_dt, clob.ids))

\* Variant of ScanEvents in which a later hit that returns replaces an
\* earlier one: C5 must notice it.
RECURSIVE ScanEventsLastWins(_, _, _)
ScanEventsLastWins(events, i, now) ==
    IF i > Len(events) THEN Skip
    ELSE LET r == ScanEvent(events[i], now)
             rest == ScanEventsLastWins(events, i + 1, now)
         IN  IF r.tag = "skip" \/ rest.tag = "return" THEN rest ELSE r

\* The loop over the events of one response, from element i on: the first
\* element that returns or raises ends it.
RECURSIVE ScanEvents(_, _, _)
ScanEvents(events, i, now) ==
    IF i > Len(events) THEN Skip
    ELSE LET r == ScanEvent(events[i], now)
         IN  IF r.tag = "skip" THEN ScanEvents(events, i + 1, now) ELSE r

\* The body of "for q in queries" for one response (discovery.py:63-112).
HandleResponse(resp, now) ==
    IF resp.status # "ok" THEN Skip
    ELSE ScanEvents(resp.events, 1, now)

\* ---------------------------------------------------------- MarketWatcher
\* A key that a JSON object does not have.
Absent == "<absent>"

\* float(text) on the numeric texts the feed uses, in hundredths; any text
\* outside the table raises ValueError.
FloatTable == [s \in {"0", "0.0", "0.41", "0.62"} |->
                 IF s = "0.41" THEN 41 ELSE IF s = "0.62" THEN 62 ELSE 0]
IsNumeric(s) == s \in DOMAIN FloatTable
Float(s) == FloatTable[s]

\* History: the session before this one ended with both prices known.
VARIABLE prevPriced

\* Variant of MarketWatcher whose prices dict is shared by all instances
\* (a class attribute): a new watcher shows what the last one left.  C18
\* must notice it.
MarketWatcherSharedPrices(market_data) ==
    [ids |-> [YES |-> market_data.yes_id, NO |-> market_data.no_id],
     end_time |-> fromisoformat(market_data.end_time),
     title |-> market_data.title,
     condition_id |-> market_data.condition_id,
     prices |-> IF prevPriced THEN [YES |-> 62, NO |-> 41] ELSE [YES |-> 0, NO |-> 0]]

\* MarketWatcher.__init__ (market_watcher.py:16-23).
MarketWatcher(market_data) ==
    [ids |-> [YES |-> market_data.yes_id, NO |-> market_data.no_id],
     end_time |-> fromisoformat(market_data.end_time),
     title |-> market_data.title,
     condition_id |-> market_data.condition_id,
     prices |-> [YES |-> 0, NO |-> 0]]

\* Variant of get_time_remaining that counts to the end of a last full
\* wait after end_time: C20 must notice it.
get_time_remainingGrace(w, now) == (w.end_time + RECV_TIMEOUT) - now

\* MarketWatcher.get_time_remaining (market_watcher.py:32-34).
get_time_remaining(w, now) == w.end_time - now

\* What refresh_display writes: seconds remaining and both prices in cents.
refresh_display(w, now) ==
    [secondsRemaining |-> get_time_remaining(w, now),
     yesPriceCents |-> w.prices.YES,
     noPriceCents |-> w.prices.NO]

\* The state threaded through the handling of one inbound message: the
\* watcher, the lines written to the display, and the exception raised.
Run(w, sink, exc) == [w |-> w, sink |-> sink, exc |-> exc]
Throw(st, e) == [st EXCEPT !.exc = e]

\* Variant of update_price without the zero-price return: C8 must notice it.
update_priceKeepsZero(st, asset_id, price, now) ==
    LET w2 == IF asset_id = st.w.ids.YES THEN [st.w EXCEPT !.prices.YES = price]
              ELSE IF asset_id = st.w.ids.NO THEN [st.w EXCEPT !.prices.NO = price]
              ELSE st.w
    IN  [st EXCEPT !.w = w2, !.sink = Append(st.sink, refresh_display(w2, now))]

\* MarketWatcher.update_price (market_watcher.py:52-61).
update_price(st, asset_id, price, now) ==
    IF price = 0 THEN st
    ELSE
      LET w2 == IF asset_id = st.w.ids.YES THEN [st.w EXCEPT !.prices.YES = price]
                ELSE IF asset_id = st.w.ids.NO THEN [st.w EXCEPT !.prices.NO = price]
                ELSE st.w
      IN  [st EXCEPT !.w = w2, !.sink = Append(st.sink, refresh_display(w2, now))]

\* for c in item.get('price_changes', []) (market_watcher.py:126-127).
RECURSIVE PriceChanges(_, _, _, _)
PriceChanges(st, changes, i, now) ==
    IF i > Len(changes) \/ st.exc # "none" THEN st
    ELSE LET c == changes[i]
         IN  IF c.asset_id = Absent THEN Throw(st, "KeyError")
             ELSE IF c.best_ask = Absent \/ c.best_ask = ""
               THEN PriceChanges(update_price(st, c.asset_id, 0, now), changes, i + 1, now)
             ELSE IF ~IsNumeric(c.best_ask) THEN Throw(st, "ValueError")
             ELSE PriceChanges(update_price(st, c.asset_id, Float(c.best_ask), now),
                               changes, i + 1, now)

\* process_item (market_watcher.py:115-133).
process_item(st, item, now) ==
    IF ~item.isRecord THEN Throw(st, "AttributeError")
    ELSE IF item.event_type = "level1" THEN
        IF item.asset_id \in {Absent, ""} \/ item.best_ask \in {Absent, ""} THEN st
        ELSE IF ~IsNumeric(item.best_ask) THEN Throw(st, "ValueError")
        ELSE update_price(st, item.asset_id, Float(item.best_ask), now)
    ELSE IF item.event_type = "price_change" THEN
        PriceChanges(st, item.price_changes, 1, now)
    ELSE IF item.event_type = "book" THEN
        IF item.asks = <<>> THEN st
        ELSE IF item.asset_id = Absent THEN Throw(st, "KeyError")
        ELSE IF item.asks[1] = Absent THEN Throw(st, "KeyError")
        ELSE IF ~IsNumeric(item.asks[1]) THEN Throw(st, "ValueError")
        ELSE update_price(st, item.asset_id, Float(item.asks[1]), now)
    ELSE st

\* for item in data: process_item(item, watcher) (market_watcher.py:97-98).
RECURSIVE ProcessList(_, _, _, _)
ProcessList(st, items, i, now) ==
    IF i > Len(items) \/ st.exc # "none" THEN st
    ELSE ProcessList(process_item(st, items[i], now), items, i + 1, now)

\* json.loads(msg) and the dispatch on its shape (market_watcher.py:93-101).
HandleMessage(w, payload, now) ==
    LET st == Run(w, <<>>, "none")
    IN  IF payload.shape = "undecodable" THEN Throw(st, "JSONDecodeError")
        ELSE IF payload.shape = "list" THEN ProcessList(st, payload.items, 1, now)
        ELSE IF payload.shape = "dict" THEN process_item(st, payload.items[1], now)
        ELSE st

\* ------------------------------------------- stream feed (black box input)
Item(event_type, asset_id, best_ask, price_changes, asks) ==
    [isRecord |-> TRUE, event_type |-> event_type, asset_id |-> asset_id,
     best_ask |-> best_ask, price_changes |-> price_changes, asks |-> asks]
NonRecordItem ==
    [isRecord |-> FALSE, event_type |-> Absent, asset_id |-> Absent,
     best_ask |-> Absent, price_changes |-> <<>>, asks |-> <<>>]
Level1(a, ask) == Item("level1", a, ask, <<>>, <<>>)
Change(a, ask) == [asset_id |-> a, best_ask |-> ask]
PriceChange(changes) == Item("price_change", Absent, Absent, changes, <<>>)
Book(a, asks) == Item("book", a, Absent, <<>>, asks)

Undecodable == [shape |-> "undecodable", items |-> <<>>]
Scalar == [shape |-> "scalar", items |-> <<>>]
Dict(item) == [shape |-> "dict", items |-> <<item>>]
List(items) == [shape |-> "list", items |-> items]

\* The frames the feed may deliver.  "X" is an asset of another market.
Payloads ==
    { Undecodable,
      Scalar,
      Dict(Level1("A", "0.62")),
      Dict(Level1("B", "0.41")),
      Dict(Level1("X", "0.62")),
      Dict(Level1("A", "0")),
      Dict(Level1("A", "abc")),
      Dict(Level1(Absent, "0.62")),
      Dict(Level1("A", Absent)),
      Dict(PriceChange(<<Change("A", Absent), Change("B", "0.41")>>)),
      Dict(PriceChange(<<Change("B", "0.62"), Change(Absent, "0.41")>>)),
      Dict(Book("B", <<"0.41", "0.62">>)),
      Dict(Book("B", <<"0.62", "0.41">>)),
      Dict(Book("A", <<"0.0">>)),
      Dict(Book(Absent, <<"0.41">>)),
      Dict(Book("A", <<>>)),
      Dict(Item("last_trade_price", "A", "0.62", <<>>, <<>>)),
      List(<<Level1("A", "0.62"), Book("B", <<"0.41">>)>>),
      List(<<Level1("A", "0.62"), NonRecordItem, Level1("B", "0.41")>>) }

\* ------------------------------------------------------------------ state
VARIABLES
    clock,      \* the current instant
    pc,         \* where main_loop is suspended
    now_et,     \* find_active_window: the "now" taken at the start of the sweep
    queries,    \* find_active_window: the candidate titles of this sweep
    qi,         \* find_active_window: index of the next candidate
    requests,   \* the search requests issued in this sweep, in order
    firstPass,  \* the first hit of this sweep's responses that passes both filters
    misses,     \* how many discovery calls in a row have returned None
    market,     \* the value find_active_window returned
    exc,        \* the exception that left main_loop, if any
    watcher,    \* the MarketWatcher of the current session
    ws,         \* the websocket of the current session: none, open, closed
    sent,       \* the frames sent on it
    waitStart,  \* the instant at which the current wait for a message began
    payload,    \* the inbound message handled last
    sink,       \* the display lines written while handling it
    outcome,    \* how the last session ended
    late        \* messages this session has handled at or after end_time

vars == <<clock, pc, now_et, queries, qi, requests, firstPass, misses, market, exc,
          watcher, ws, sent, waitStart, payload, sink, outcome, prevPriced, late>>

discoveryVars == <<now_et, queries, qi, requests, firstPass, misses>>
sessionVars == <<watcher, ws, sent, waitStart, payload, sink, outcome, prevPriced, late>>

Init ==
    /\ clock = ClockStart
    /\ pc = "scan"
    /\ now_et = 0
    /\ queries = <<>>
    /\ qi = 0
    /\ requests = <<>>
    /\ firstPass = None
    /\ misses = 0
    /\ market = None
    /\ exc = "none"
    /\ watcher = None
    /\ ws = "none"
    /\ sent = <<>>
    /\ waitStart = 0
    /\ payload = None
    /\ sink = <<>>
    /\ outcome = "none"
    /\ prevPriced = FALSE
    /\ late = 0

\* ------------------------------------------------------------ discovery
\* A hit passes both filters when it carries a start and an end that parse,
\* lasts at most DURATION_LIMIT and is live at `now`.
PassesFilters(ev, now) ==
    /\ ev.markets # "empty"
    /\ LET s == OrTs(MarketField(ev, "mStart"), ev.evStart)
           e == OrTs(MarketField(ev, "mEnd"), ev.evEnd)
       IN  /\ s.kind = "iso"
           /\ e.kind = "iso"
           /\ (e.wall - e.off) - (s.wall - s.off) <= DURATION_LIMIT
           /\ (s.wall - s.off) <= now
           /\ now < (e.wall - e.off)

\* The first hit of the response to candidate q that passes both filters,
\* and how many later hits of that response pass them too.
FirstPassing(resp, q, now) ==
    LET idx == { i \in 1..Len(resp.events) : PassesFilters(resp.events[i], now) }
    IN  IF resp.status # "ok" \/ idx = {} THEN None
        ELSE LET i == CHOOSE k \in idx : \A j \in idx : k <= j
             IN  Some([q |-> q, i |-> i, ev |-> resp.events[i],
                       rivals |-> Cardinality(idx) - 1])

\* queries = title_variants(start) + title_variants(end) (discovery.py:60).
Queries(now) ==
    LET w == get_window_boundaries(now)
    IN  title_variants(w[1]) \o title_variants(w[2])

\* main_loop calls find_active_window, which takes "now" and builds the
\* candidate list (market_watcher.py:68-69, discovery.py:52-60).
StartScan ==
    /\ pc = "scan"
    /\ pc' = "sweep"
    /\ now_et' = clock
    /\ queries' = Queries(clock)
    /\ qi' = 1
    /\ requests' = <<>>
    /\ firstPass' = None
    /\ market' = None
    /\ UNCHANGED <<clock, misses, exc, sessionVars>>

\* The index of the candidate tried after candidate i was skipped
\* ("continue" at discovery.py:69, 73, 77 and the end of the loop body).
NextCandidate(i) == i + 1

\* What a request can come to, over every response, in a sweep whose "now"
\* is t: how the handling of the response ends (r) and the first hit of it
\* that passes both filters (fp).  Tabulated per instant.
OutcomeTable ==
    [t \in ClockStart..MaxClock |->
        { [r |-> HandleResponse(resp, t), fp |-> FirstPassing(resp, 0, t)] :
            resp \in Responses }]

\* The same for the request of candidate q.
Outcomes(q, now) ==
    { [r |-> o.r,
       fp |-> IF o.fp = None THEN None ELSE Some([o.fp[1] EXCEPT !.q = q])] :
        o \in OutcomeTable[now] }

\* One search request and the handling of its response (discovery.py:62-114).
\* An exception raised while the hits are read is caught by nobody: it
\* leaves find_active_window and main_loop.
Request ==
    /\ pc = "sweep"
    /\ \E o \in Outcomes(qi, now_et) :
         LET r == o.r
         IN  /\ requests' = Append(requests, queries[qi])
             /\ firstPass' = IF firstPass # None THEN firstPass ELSE o.fp
             /\ IF r.tag = "raise"
                  THEN /\ pc' = "crashed"
                       /\ exc' = r.exc
                       /\ UNCHANGED <<qi, market>>
                ELSE IF r.tag = "return"
                  THEN /\ pc' = "returned"
                       /\ market' = r.market
                       /\ UNCHANGED <<qi, exc>>
                ELSE /\ qi' = NextCandidate(qi)
                     /\ pc' = IF NextCandidate(qi) > Len(queries) THEN "returned" ELSE "sweep"
                     /\ market' = None
                     /\ UNCHANGED exc
    /\ UNCHANGED <<clock, now_et, queries, misses, sessionVars>>

\* main_loop resumes with the value returned (market_watcher.py:71-77):
\* no market: sleep; a market: build the watcher of a new session.
Dispatch ==
    /\ pc = "returned"
    /\ IF market = None
         THEN /\ pc' = "backoff"
              /\ misses' = misses + 1
              /\ UNCHANGED sessionVars
         ELSE /\ pc' = "connect"
              /\ misses' = 0
              /\ watcher' = Some(MarketWatcher(market[1]))
              /\ ws' = "none"
              /\ sent' = <<>>
              /\ waitStart' = 0
              /\ payload' = None
              /\ sink' = <<>>
              /\ outcome' = "none"
              /\ late' = 0
              /\ UNCHANGED prevPriced
    /\ now_et' = 0
    /\ queries' = <<>>
    /\ qi' = 0
    /\ requests' = <<>>
    /\ firstPass' = None
    /\ UNCHANGED <<clock, market, exc>>

\* Variant of Backoff that sleeps the 4 s of the pause: C13 must notice it.
BackoffAsPause ==
    /\ pc = "backoff"
    /\ clock + PAUSE_SECONDS <= MaxClock
    /\ clock' = clock + PAUSE_SECONDS
    /\ pc' = "scan"
    /\ UNCHANGED <<discoveryVars, market, exc, sessionVars>>

\* await asyncio.sleep(30); continue (market_watcher.py:73-74).
Backoff ==
    /\ pc = "backoff"
    /\ clock + BACKOFF_SECONDS <= MaxClock
    /\ clock' = clock + BACKOFF_SECONDS
    /\ pc' = "scan"
    /\ UNCHANGED <<discoveryVars, market, exc, sessionVars>>

\* ---------------------------------------------------------------- session
\* Variant of EndSession that leaves the receive loop without leaving the
\* "async with" block (no close): C12 and C14 must notice it.
EndSessionNoClose(how) ==
    /\ outcome' = how
    /\ ws' = ws
    /\ pc' = "pause"

\* The session ends: the connection (if any) is closed on leaving the
\* "async with" block and main_loop goes on to its 4 s pause
\* (market_watcher.py:109-113).
EndSession(how) ==
    /\ outcome' = how
    /\ ws' = IF ws = "open" THEN "closed" ELSE ws
    /\ pc' = "pause"

\* websockets.connect(WS_URL) (market_watcher.py:80); a failure is caught
\* at line 109.
Connect ==
    /\ pc = "connect"
    /\ \E ok \in BOOLEAN :
         IF ok THEN /\ ws' = "open"
                    /\ pc' = "subscribe"
                    /\ UNCHANGED outcome
         ELSE EndSession("connection_error")
    /\ UNCHANGED <<clock, discoveryVars, market, exc, prevPriced, late, watcher, sent, waitStart,
                   payload, sink>>

\* Variant of sub_msg that names the NO token first: C17 must notice it.
sub_msgSwapped(m) == [assets_ids |-> <<m.no_id, m.yes_id>>, type |-> "level1"]

\* The subscription frame (market_watcher.py:82).
sub_msg(m) == [assets_ids |-> <<m.yes_id, m.no_id>>, type |-> "level1"]

\* await ws.send(json.dumps(sub_msg)) (market_watcher.py:83); a failure is
\* caught at line 109.
Subscribe ==
    /\ pc = "subscribe"
    /\ \E ok \in BOOLEAN :
         IF ok THEN /\ sent' = Append(sent, sub_msg(market[1]))
                    /\ pc' = "check"
                    /\ UNCHANGED <<ws, outcome>>
         ELSE /\ EndSession("connection_error")
              /\ UNCHANGED sent
    /\ UNCHANGED <<clock, discoveryVars, market, exc, prevPriced, late, watcher, waitStart, payload, sink>>

\* Variant of Expired with a strict comparison: C10 must notice it.
ExpiredLate(w, now) == get_time_remaining(w, now) < 0

\* if watcher.get_time_remaining() <= 0 (market_watcher.py:87).
Expired(w, now) == get_time_remaining(w, now) <= 0

\* Variant of CheckExpiry with "continue" where the code has "break": an
\* expired session goes round the check for ever.  C11 must notice it.
CheckExpirySpins ==
    /\ pc = "check"
    /\ IF Expired(watcher[1], clock)
         THEN /\ pc' = "check"
              /\ UNCHANGED <<ws, outcome, waitStart>>
         ELSE /\ pc' = "wait"
              /\ waitStart' = clock
              /\ UNCHANGED <<ws, outcome>>
    /\ payload' = None
    /\ sink' = <<>>
    /\ UNCHANGED <<clock, discoveryVars, market, exc, prevPriced, late, watcher, sent>>

\* The top of the receive loop (market_watcher.py:85-92): leave on expiry,
\* otherwise begin a bounded wait for the next message.
CheckExpiry ==
    /\ pc = "check"
    /\ IF Expired(watcher[1], clock)
         THEN /\ EndSession("expired")
              /\ UNCHANGED waitStart
         ELSE /\ pc' = "wait"
              /\ waitStart' = clock
              /\ UNCHANGED <<ws, outcome>>
    /\ payload' = None
    /\ sink' = <<>>
    /\ UNCHANGED <<clock, discoveryVars, market, exc, prevPriced, late, watcher, sent>>

\* A message arrives within the wait and is handled
\* (market_watcher.py:92-101); any exception is caught at line 106.
RecvMsg ==
    /\ pc = "wait"
    /\ \E p \in Payloads :
         LET st == HandleMessage(watcher[1], p, clock)
         IN  /\ payload' = Some(p)
             /\ watcher' = Some(st.w)
             /\ sink' = st.sink
             /\ IF st.exc = "none"
                  THEN /\ pc' = "check"
                       /\ UNCHANGED <<ws, outcome>>
                  ELSE EndSession("stream_error")
    /\ late' = IF clock >= watcher[1].end_time THEN late + 1 ELSE late
    /\ UNCHANGED <<clock, discoveryVars, market, exc, sent, waitStart, prevPriced>>

\* ws.recv() raises (the connection dropped): caught at line 106.
RecvError ==
    /\ pc = "wait"
    /\ EndSession("stream_error")
    /\ UNCHANGED <<clock, discoveryVars, market, exc, prevPriced, late, watcher, sent, waitStart,
                   payload, sink>>

\* The keepalive frame of ws.ping() (market_watcher.py:105).
Ping == [type |-> "ping"]

\* Variant of Timeout that swallows the TimeoutError without a ping: C19
\* must notice it.
TimeoutNoPing ==
    /\ pc = "wait"
    /\ clock = waitStart + RECV_TIMEOUT
    /\ pc' = "check"
    /\ UNCHANGED <<clock, discoveryVars, market, exc, prevPriced, late, watcher,
                   ws, sent, waitStart, payload, sink, outcome>>

\* No message within RECV_TIMEOUT: asyncio.TimeoutError, then ws.ping()
\* (market_watcher.py:103-105).  An exception raised by the ping is raised
\* inside the handler, so it is caught at line 109, not at line 106.
Timeout ==
    /\ pc = "wait"
    /\ clock = waitStart + RECV_TIMEOUT
    /\ \E ok \in BOOLEAN :
         IF ok THEN /\ sent' = Append(sent, Ping)
                    /\ pc' = "check"
                    /\ UNCHANGED <<ws, outcome>>
         ELSE /\ EndSession("connection_error")
              /\ UNCHANGED sent
    /\ UNCHANGED <<clock, discoveryVars, market, exc, prevPriced, late, watcher, waitStart, payload, sink>>

\* await asyncio.sleep(4) and back to the top (market_watcher.py:112-113),
\* where market and watcher are rebound: the ended session's objects are
\* unreachable from here on.
Pause ==
    /\ pc = "pause"
    /\ clock + PAUSE_SECONDS <= MaxClock
    /\ clock' = clock + PAUSE_SECONDS
    /\ pc' = "scan"
    /\ market' = None
    /\ watcher' = None
    /\ ws' = "none"
    /\ sent' = <<>>
    /\ waitStart' = 0
    /\ payload' = None
    /\ sink' = <<>>
    /\ outcome' = "none"
    /\ prevPriced' = (watcher[1].prices.YES # 0 /\ watcher[1].prices.NO # 0)
    /\ late' = 0
    /\ UNCHANGED <<discoveryVars, exc>>

\* The points at which main_loop is suspended in an await.
Awaiting == {"sweep", "backoff", "connect", "subscribe", "wait", "pause"}

\* Variant of Cancel for a connection held outside an "async with" block
\* (nothing closes it when CancelledError passes): C14 must notice it.
CancelNoClose ==
    /\ pc \in Awaiting
    /\ pc' = "cancelled"
    /\ UNCHANGED <<clock, discoveryVars, market, exc, sessionVars>>

\* External cancellation (market_watcher.py:135-139): CancelledError is
\* raised at the await, passes every "except Exception", and the
\* "async with" block closes the connection on the way out.
Cancel ==
    /\ pc \in Awaiting
    /\ pc' = "cancelled"
    /\ ws' = IF ws = "open" THEN "closed" ELSE ws
    /\ UNCHANGED <<clock, discoveryVars, market, exc, prevPriced, late, watcher, sent, waitStart,
                   payload, sink, outcome>>

\* Time passes while a network operation is awaited; a wait for a message
\* lasts at most RECV_TIMEOUT.
Tick ==
    /\ pc \in {"sweep", "connect", "subscribe", "wait"}
    /\ clock < MaxClock
    /\ pc = "sweep" => clock < now_et + MaxSweepSeconds
    /\ pc = "wait" => clock < waitStart + RECV_TIMEOUT
    /\ clock' = clock + 1
    /\ UNCHANGED <<pc, discoveryVars, market, exc, sessionVars>>

Next ==
    \/ StartScan
    \/ Request
    \/ Dispatch
    \/ Backoff
    \/ Connect
    \/ Subscribe
    \/ CheckExpiry
    \/ RecvMsg
    \/ RecvError
    \/ Timeout
    \/ Pause
    \/ Cancel
    \/ Tick

Spec == Init /\ [][Next]_vars

\* The scheduling the session relies on: time advances; connect and send
\* complete (websockets.connect has an open timeout); the task runs when it
\* is ready; every wait for a message returns, with a message, an error or
\* the timeout (asyncio.wait_for, market_watcher.py:92).
WaitReturns == RecvMsg \/ RecvError \/ Timeout
FairSpec ==
    /\ Spec
    /\ SF_vars(Tick)
    /\ WF_vars(Connect)
    /\ WF_vars(Subscribe)
    /\ WF_vars(CheckExpiry)
    /\ WF_vars(WaitReturns)

\* ================================================================ claims

\* C1: no handled error terminates the watch loop: whatever the search
\* responses, connection failures and inbound messages were, main_loop has
\* not been left by an exception; it stops only by external cancellation.
C1_NoErrorStopsWatchLoop == pc # "crashed"

\* ---------------------------------------------------------------- C2
\* An item that is not a record, or a record of a known event_type with a
\* missing or non-numeric field (best_ask is optional in a price change).
MalformedChange(c) ==
    c.asset_id = Absent \/ (c.best_ask # Absent /\ ~IsNumeric(c.best_ask))
MalformedItem(it) ==
    \/ ~it.isRecord
    \/ /\ it.event_type = "level1"
       /\ (it.asset_id = Absent \/ it.best_ask = Absent \/ ~IsNumeric(it.best_ask))
    \/ /\ it.event_type = "price_change"
       /\ \E i \in 1..Len(it.price_changes) : MalformedChange(it.price_changes[i])
    \/ /\ it.event_type = "book"
       /\ \/ it.asset_id = Absent
          \/ \E i \in 1..Len(it.asks) : ~IsNumeric(it.asks[i])
WellFormedItem(it) == ~MalformedItem(it)
MalformedPayload(p) ==
    \/ p.shape = "undecodable"
    \/ \E i \in 1..Len(p.items) : MalformedItem(p.items[i])
\* The payload without its malformed parts.
Sanitized(p) ==
    IF p.shape = "undecodable" THEN Scalar
    ELSE IF p.shape = "dict" /\ MalformedItem(p.items[1]) THEN Scalar
    ELSE [p EXCEPT !.items = SelectSeq(p.items, WellFormedItem)]

\* C2: a malformed inbound message is skipped and never fatal: after it the
\* session is still in its receive loop with the connection open, and the
\* price state is what the well-formed parts of the message alone produce
\* (unchanged when there is none).
C2_MalformedMessageSkipped ==
    [][ (pc = "wait" /\ payload' # None /\ MalformedPayload(payload'[1]))
        => /\ pc' = "check"
           /\ ws' = "open"
           /\ watcher'[1].prices =
                HandleMessage(watcher[1], Sanitized(payload'[1]), clock).w.prices ]_vars

\* C3: find_active_window never raises to its caller because of the content
\* of a search response: the call ends by returning a descriptor or None.
C3_DiscoveryNeverRaises == exc = "none"

\* C4: sweep exhaustion: when no response of the sweep carried a hit that
\* passes the filters, the sweep ends by returning None after exactly one
\* request for every candidate, the variants of the current window followed
\* by those of the next window, in order.
C4_SweepExhaustion ==
    (pc \in {"returned", "crashed"} /\ firstPass = None)
      => /\ pc = "returned"
         /\ market = None
         /\ requests = title_variants(get_window_boundaries(now_et)[1])
                         \o title_variants(get_window_boundaries(now_et)[2])
         /\ Cardinality({ requests[i] : i \in 1..Len(requests) }) = 6

\* ---------------------------------------------------------------- C5
\* The instants a hit reports, read from the market record first.
HitStart(ev) ==
    LET ts == IF ev.markets = "one" /\ ev.mStart.kind # "missing" THEN ev.mStart ELSE ev.evStart
    IN  ts.wall - ts.off
HitEnd(ev) ==
    LET ts == IF ev.markets = "one" /\ ev.mEnd.kind # "missing" THEN ev.mEnd ELSE ev.evEnd
    IN  ts.wall - ts.off

\* C5: first match wins: a returned descriptor is built from the first hit,
\* in candidate order and then in hit order, that passes both filters, and
\* the request that delivered that hit is the last request of the sweep.
C5_FirstMatchWins ==
    /\ (firstPass # None) => (pc \in {"returned", "crashed"} /\ Len(requests) = firstPass[1].q)
    /\ (pc = "returned" /\ market # None)
         => /\ firstPass # None
            /\ firstPass[1].ev.markets = "one"
            /\ firstPass[1].ev.clob.kind = "list"
            /\ Len(firstPass[1].ev.clob.ids) >= 2
            /\ market[1].yes_id = firstPass[1].ev.clob.ids[1]
            /\ market[1].no_id = firstPass[1].ev.clob.ids[2]
            /\ market[1].start_time.wall - market[1].start_time.off = HitStart(firstPass[1].ev)
            /\ market[1].end_time.wall - market[1].end_time.off = HitEnd(firstPass[1].ev)

\* A descriptor returned from the second hit of the response to a later
\* candidate, while a later hit of that response passes the filters too.
C5_Witness ==
    /\ pc = "returned"
    /\ market # None
    /\ firstPass # None
    /\ firstPass[1].q > 1
    /\ firstPass[1].rivals > 0

\* C6: every returned descriptor passes both filters against the "now" taken
\* at the start of the sweep: it lasts at most 1800 s and start <= now < end.
C6_ReturnedPassesFilters ==
    (pc = "returned" /\ market # None)
      => LET s == market[1].start_time.wall - market[1].start_time.off
             e == market[1].end_time.wall - market[1].end_time.off
         IN  /\ e - s <= 1800
             /\ s <= now_et
             /\ now_et < e

\* A descriptor of exactly 1800 s returned at now = start_time.
C6_Witness ==
    /\ pc = "returned"
    /\ market # None
    /\ LET s == market[1].start_time.wall - market[1].start_time.off
           e == market[1].end_time.wall - market[1].end_time.off
       IN  e - s = 1800 /\ s = now_et

\* ------------------------------------------------------------ C7 .. C9
\* The (asset id, price) updates a well-formed item carries, in order.
ItemUpdates(it) ==
    IF it.event_type = "level1" THEN << <<it.asset_id, Float(it.best_ask)>> >>
    ELSE IF it.event_type = "price_change" THEN
        [i \in 1..Len(it.price_changes) |->
            << it.price_changes[i].asset_id,
               IF it.price_changes[i].best_ask = Absent THEN 0
               ELSE Float(it.price_changes[i].best_ask) >>]
    ELSE IF it.event_type = "book" /\ it.asks # <<>> THEN
        << <<it.asset_id, Float(it.asks[1])>> >>
    ELSE <<>>

RECURSIVE UpdatesFrom(_, _)
UpdatesFrom(items, i) ==
    IF i > Len(items) THEN <<>> ELSE ItemUpdates(items[i]) \o UpdatesFrom(items, i + 1)

\* The updates of a well-formed payload.
Updates(p) == UpdatesFrom(p.items, 1)

\* A step that receives a well-formed message.
ReceivesWellFormed == pc = "wait" /\ payload' # None /\ ~MalformedPayload(payload'[1])

\* An update is accepted when its price is nonzero and its asset id is the
\* YES or the NO token id of the session.
Accepted(u, ids) == u[2] # 0 /\ u[1] \in {ids.YES, ids.NO}

\* C7: the display sink is notified exactly once for each accepted price
\* update and not at all for a discarded (price 0) or ignored (foreign
\* asset id) update; each notification carries the current price state.
C7_NotifiedOncePerAcceptedUpdate ==
    [][ ReceivesWellFormed
        => LET U == Updates(payload'[1])
           IN  /\ Len(sink') = Cardinality({ i \in 1..Len(U) : Accepted(U[i], watcher[1].ids) })
               /\ sink' # <<>> =>
                    /\ sink'[Len(sink')].yesPriceCents = watcher'[1].prices.YES
                    /\ sink'[Len(sink')].noPriceCents = watcher'[1].prices.NO ]_vars

\* C8: zero-price discard: a message whose updates all have price 0 leaves
\* both prices unchanged and the session in its loop; a nonzero update for
\* a matching token id that comes last in a message is the price of its
\* side afterwards, whatever came before it.
C8_ZeroPriceDiscard ==
    [][ ReceivesWellFormed
        => LET U == Updates(payload'[1])
               ids == watcher[1].ids
           IN  /\ (\A i \in 1..Len(U) : U[i][2] = 0)
                    => /\ watcher'[1].prices = watcher[1].prices
                       /\ pc' = "check"
                       /\ ws' = "open"
               /\ (U # <<>> /\ U[Len(U)][2] # 0 /\ U[Len(U)][1] \in {ids.YES, ids.NO})
                    => IF U[Len(U)][1] = ids.YES
                         THEN watcher'[1].prices.YES = U[Len(U)][2]
                         ELSE watcher'[1].prices.NO = U[Len(U)][2] ]_vars

\* A zero-priced update for the YES token has been handled and both known
\* prices are still there.
C8_Witness ==
    /\ pc = "check"
    /\ payload # None
    /\ ~MalformedPayload(payload[1])
    /\ Updates(payload[1]) # <<>>
    /\ \A i \in 1..Len(Updates(payload[1])) :
          Updates(payload[1])[i][2] = 0 /\ Updates(payload[1])[i][1] = watcher[1].ids.YES
    /\ watcher[1].prices.YES # 0
    /\ watcher[1].prices.NO # 0

\* C9: asset-id routing: a message with one update leaves the price state
\* unchanged when the asset id is neither token id, changes only yes_price
\* when it is the YES token id and only no_price when it is the NO token id.
C9_AssetIdRouting ==
    [][ (ReceivesWellFormed /\ Len(Updates(payload'[1])) = 1)
        => LET a == Updates(payload'[1])[1][1]
               ids == watcher[1].ids
           IN  /\ a \notin {ids.YES, ids.NO} => watcher'[1].prices = watcher[1].prices
               /\ a = ids.YES => watcher'[1].prices.NO = watcher[1].prices.NO
               /\ a = ids.NO => watcher'[1].prices.YES = watcher[1].prices.YES ]_vars

\* ---------------------------------------------------------------- C10
\* C10: the session never begins a wait for a message at an instant at or
\* after end_time, and a check that finds the market expired ends the
\* session at once, with the connection closed, the price state untouched
\* and the outcome "expired" (not an error outcome).
C10_ExpiryCheck ==
    /\ [](pc = "wait" => waitStart < watcher[1].end_time)
    /\ [][ (pc = "check" /\ clock >= watcher[1].end_time)
           => /\ pc' = "pause"
              /\ outcome' = "expired"
              /\ ws' = "closed"
              /\ watcher' = watcher
              /\ sent' = sent ]_vars

\* The check right after a message that arrived at or after end_time.
C10_Witness ==
    /\ pc = "check"
    /\ payload # None
    /\ clock >= watcher[1].end_time
    /\ watcher[1].prices.YES # 0

\* ---------------------------------------------------------------- C11
\* C11: every session that is started eventually terminates and hands
\* control back to main_loop (the pause), unless the process is cancelled
\* first: no pattern of messages, timeouts and pings keeps it in its
\* receive loop forever.  Stated for the sessions whose market closes within
\* the observed time.
C11_SessionTerminates ==
    (pc = "connect" /\ watcher[1].end_time <= MaxClock)
        ~> (pc \in {"pause", "cancelled"})

\* A session that survived a receive timeout and a ping, then ended by expiry.
C11_Witness ==
    /\ pc = "pause"
    /\ outcome = "expired"
    /\ \E i \in 1..Len(sent) : sent[i].type = "ping"
    /\ payload = None

\* ---------------------------------------------------------------- C12
\* Where main_loop is inside find_active_window, and where it is inside a
\* session (between the construction of the watcher and the end of the
\* "async with" block).
InDiscovery == pc \in {"sweep", "returned", "crashed"}
InSession == pc \in {"connect", "subscribe", "check", "wait"}

\* C12: strict sequencing: a connection is open only inside a session;
\* while a discovery call is in progress (or about to start, or backing
\* off) there is no session object and no open connection; while a session
\* is active no discovery call is in progress; and a discovery call starts
\* only when the previous session, if any, has terminated.
C12_StrictSequencing ==
    /\ [](ws = "open" => pc \in {"subscribe", "check", "wait"})
    /\ []((InDiscovery \/ pc \in {"scan", "backoff"}) => (ws = "none" /\ watcher = None))
    /\ [](InSession => (watcher # None /\ queries = <<>> /\ qi = 0 /\ requests = <<>>))
    /\ [](queries # <<>> => (InDiscovery \/ pc = "cancelled"))
    /\ [][ (pc' = "sweep" /\ pc # "sweep")
            => (pc = "scan" /\ ws = "none" /\ watcher = None /\ qi = 0) ]_vars

\* A second discovery call, running after a session has ended and the
\* 4 s pause has passed.
C12_Witness ==
    /\ pc = "sweep"
    /\ requests # <<>>
    /\ clock = ClockStart + PAUSE_SECONDS

\* ---------------------------------------------------------------- C13
\* C13: pacing: a discovery that returned None is followed by the 30 s
\* backoff and then by the next discovery, with no connection opened; a
\* session that ends, by any outcome, is followed by the 4 s pause and then
\* by the next discovery; and the top of the loop is reached only from one
\* of these two waits (cancellation can interrupt either).
C13_Pacing ==
    /\ [][ (pc = "returned" /\ market = None)
            => (pc' = "backoff" /\ ws' = "none" /\ watcher' = None /\ clock' = clock) ]_vars
    /\ [][ (pc = "backoff" /\ pc' # "cancelled")
            => (pc' = "scan" /\ clock' = clock + 30 /\ ws' = "none" /\ watcher' = None) ]_vars
    /\ [][ (InSession /\ ~InSession' /\ pc' # "cancelled")
            => (pc' = "pause" /\ outcome' \in {"expired", "stream_error", "connection_error"}) ]_vars
    /\ [][ (pc = "pause" /\ pc' # "cancelled")
            => (pc' = "scan" /\ clock' = clock + 4) ]_vars
    /\ [][ (pc' = "scan" /\ pc # "scan") => pc \in {"backoff", "pause"} ]_vars
    /\ [][ (pc' = "sweep" /\ pc # "sweep") => pc = "scan" ]_vars

\* The third discovery in a row, after two misses and two backoffs.
C13_Witness ==
    /\ pc = "sweep"
    /\ misses = 2
    /\ clock >= ClockStart + 60

\* ---------------------------------------------------------------- C14
\* C14: connection cleanup: every step that takes a session with an open
\* connection out of its loop (expiry, stream error, failed ping, failed
\* send, cancellation) closes that connection; no connection is open
\* outside a session, in particular not after cancellation; and once the
\* connection is closed the session's prices are not updated and nothing
\* more is written to the display.
C14_ConnectionCleanup ==
    /\ [][ (ws = "open" /\ pc' \notin {"subscribe", "check", "wait"}) => ws' = "closed" ]_vars
    /\ [](pc \notin {"subscribe", "check", "wait"} => ws # "open")
    /\ [][ ws = "closed"
            => /\ (watcher' = watcher \/ watcher' = None)
               /\ (sink' = sink \/ sink' = <<>>)
               /\ sent' \in {sent, <<>>}
               /\ ws' \in {"closed", "none"} ]_vars

\* A session cancelled in the middle of a wait, after a ping, with its
\* connection closed on the way out.
C14_Witness ==
    /\ pc = "cancelled"
    /\ ws = "closed"
    /\ outcome = "none"
    /\ \E i \in 1..Len(sent) : sent[i].type = "ping"

\* ---------------------------------------------------------------- C15
\* C15: every descriptor that find_active_window returns, and every session
\* built from one, has a YES token id different from its NO token id.
C15_DistinctTokenIds ==
    /\ (pc = "returned" /\ market # None) => market[1].yes_id # market[1].no_id
    /\ watcher # None => watcher[1].ids.YES # watcher[1].ids.NO

\* ---------------------------------------------------------------- C16
\* The least element of a nonempty set of numbers.
Lowest(S) == CHOOSE x \in S : \A y \in S : x <= y

\* C16: a book snapshot for one of the session's tokens sets that token's
\* price to the lowest (nonzero) price of its ask list, in whatever order
\* the list comes; a snapshot with an empty ask list changes nothing.
C16_BookLowestAsk ==
    [][ ( /\ ReceivesWellFormed
          /\ payload'[1].shape = "dict"
          /\ payload'[1].items[1].event_type = "book" )
        => LET it == payload'[1].items[1]
               ids == watcher[1].ids
               low == Lowest({ Float(it.asks[i]) : i \in 1..Len(it.asks) })
           IN  IF it.asks = <<>> THEN watcher'[1].prices = watcher[1].prices
               ELSE (low # 0 /\ ids.YES # ids.NO)
                      => /\ it.asset_id = ids.YES => watcher'[1].prices.YES = low
                         /\ it.asset_id = ids.NO => watcher'[1].prices.NO = low ]_vars

\* ---------------------------------------------------------------- C17
\* C17: subscription protocol: while the session waits for or handles
\* inbound messages, the first frame it has sent is the subscription naming
\* the descriptor's YES and NO token ids in that order, and it is the only
\* subscription (every later frame is a ping); nothing is sent and no message
\* is handled before the connection is open; the subscription is sent on an
\* open connection; and a failure to connect ends the session with the
\* connection-error outcome, nothing sent, no message handled.
C17_SubscriptionProtocol ==
    /\ [](pc \in {"check", "wait"}
            => /\ ws = "open"
               /\ sent # <<>>
               /\ sent[1].type = "level1"
               /\ sent[1].assets_ids = <<market[1].yes_id, market[1].no_id>>
               /\ sent[1].assets_ids = <<watcher[1].ids.YES, watcher[1].ids.NO>>
               /\ \A i \in 2..Len(sent) : sent[i].type = "ping")
    /\ [](pc \in {"connect", "subscribe"}
            => (sent = <<>> /\ payload = None /\ sink = <<>>))
    /\ []((pc = "pause" /\ sent # <<>>)
            => (sent[1].type = "level1" /\ \A i \in 2..Len(sent) : sent[i].type = "ping"))
    /\ [][ (pc = "subscribe" /\ sent' # sent) => (ws = "open" /\ pc' = "check") ]_vars
    /\ [][ (pc = "connect" /\ pc' = "pause")
            => /\ outcome' = "connection_error"
               /\ ws' = "none"
               /\ sent' = <<>>
               /\ payload' = None
               /\ watcher' = watcher ]_vars

\* A session for a descriptor whose YES token is B and NO token is A, in a
\* wait after its subscription and one ping.
C17_Witness ==
    /\ pc = "wait"
    /\ Len(sent) = 2
    /\ sent[1].assets_ids = <<"B", "A">>
    /\ sent[2].type = "ping"

\* ---------------------------------------------------------------- C18
\* The prices of the updates of a well-formed message.
UpdatePrices(p) == { Updates(p)[i][2] : i \in 1..Len(Updates(p)) }

\* C18: per-session price state: the watcher built for a new session has
\* both prices 0, whatever the session before held, and they stay 0 until
\* a message of this session sets them; a display line written in a session
\* shows, for each side, the price that side had in this session before the
\* message or a price carried by the message; and a price that is nonzero
\* is never 0 again in the same session.
C18_PerSessionPriceState ==
    /\ [][ (pc = "returned" /\ market # None)
            => (watcher' # None /\ watcher'[1].prices = [YES |-> 0, NO |-> 0]) ]_vars
    /\ [](pc \in {"connect", "subscribe"}
            => (watcher[1].prices = [YES |-> 0, NO |-> 0] /\ sink = <<>>))
    /\ [][ ReceivesWellFormed
            => \A i \in 1..Len(sink') :
                 /\ sink'[i].yesPriceCents \in {watcher[1].prices.YES} \cup UpdatePrices(payload'[1])
                 /\ sink'[i].noPriceCents \in {watcher[1].prices.NO} \cup UpdatePrices(payload'[1]) ]_vars
    /\ [][ (InSession /\ watcher' # None)
            => /\ watcher[1].prices.YES # 0 => watcher'[1].prices.YES # 0
               /\ watcher[1].prices.NO # 0 => watcher'[1].prices.NO # 0 ]_vars

\* A session that follows one which ended with both prices known: it has
\* handled a message for the NO token only, and its YES price is still 0.
C18_Witness ==
    /\ prevPriced
    /\ pc = "check"
    /\ payload # None
    /\ watcher[1].prices.YES = 0
    /\ watcher[1].prices.NO # 0
    /\ sink # <<>>
    /\ sink[Len(sink)].yesPriceCents = 0

\* ---------------------------------------------------------------- C19
\* C19: keepalive: a wait that ends without a message and without an error
\* ends RECV_TIMEOUT after it began, with exactly one ping sent, prices and
\* display untouched, the connection open and the session back at its
\* expiry check; a ping is sent at no other moment; and a wait ends the
\* session only with an error outcome (the receive or the ping failed),
\* never because of the timeout itself.
C19_Keepalive ==
    /\ [][ (pc = "wait" /\ pc' = "check" /\ payload' = None)
            => /\ clock = waitStart + 10
               /\ clock' = clock
               /\ sent' = Append(sent, Ping)
               /\ watcher' = watcher
               /\ sink' = sink
               /\ ws' = "open"
               /\ outcome' = "none" ]_vars
    /\ [][ sent' # sent
            => \/ sent' = <<>>
               \/ pc = "subscribe"
               \/ (pc = "wait" /\ pc' = "check" /\ payload' = None) ]_vars
    /\ [][ (pc = "wait" /\ pc' = "pause")
            => outcome' \in {"stream_error", "connection_error"} ]_vars

\* A session in its third wait in a row that no message had interrupted.
C19_Witness ==
    /\ pc = "wait"
    /\ Len(sent) = 3
    /\ sent[2].type = "ping"
    /\ sent[3].type = "ping"
    /\ watcher[1].prices = [YES |-> 0, NO |-> 0]
    /\ waitStart >= ClockStart + 20

\* ---------------------------------------------------------------- C20
\* C20: activity after expiry is bounded: a session handles at most one
\* message at or after end_time; that message is the one returned by the
\* wait that began before end_time; it is handled whole; and the check
\* that follows it ends the session.
C20_OneLateMessage ==
    /\ [](late <= 1)
    /\ [][ late' > late
            => /\ pc = "wait"
               /\ waitStart < watcher[1].end_time
               /\ clock >= watcher[1].end_time
               /\ payload' # None
               /\ watcher'[1].prices = HandleMessage(watcher[1], payload'[1], clock).w.prices
               /\ sink' = HandleMessage(watcher[1], payload'[1], clock).sink ]_vars
    /\ [][ (pc = "check" /\ late = 1)
            => (pc' = "pause" /\ outcome' = "expired" /\ ws' = "closed" /\ late' = late) ]_vars

\* A list of two updates that arrived after end_time has been handled
\* whole: both sides were set and displayed.
C20_Witness ==
    /\ pc = "check"
    /\ late = 1
    /\ clock > watcher[1].end_time
    /\ payload # None
    /\ payload[1].shape = "list"
    /\ Len(sink) = 2
    /\ sink[1].secondsRemaining < 0

====
